---- MODULE Spec2Model ----
(***************************************************************************)
(* A model of src/bin/debcrafter.rs: main's argument handling, the         *)
(* per-source drivers gen_source and check, and the helpers gen_rules,     *)
(* copy_changelog, create_lazy_builder, changelog_parse_version and        *)
(* get_upstream_version.                                                    *)
(*                                                                         *)
(* Text is a sequence of tokens.  "." and "-" are the characters the code  *)
(* looks for (Path::set_extension, str::rfind); every other token stands   *)
(* for a run of characters holding neither.                                *)
(***************************************************************************)
EXTENDS Integers, Sequences, FiniteSets, TLC

VARIABLES
    args,              \* std::env::args_os() after the two positionals
    world,             \* what the run reads: the document, the changelogs, the oracle
    pc,                \* position of main / gen_source / check
    panic,             \* the message of the panic that ended the run, or None
    split_source,      \* main's locals
    write_deps,
    check_only,
    dep_file,
    loaded,            \* load_toml has read the specification file
    queue,             \* sources main has still to process
    cur,               \* the source gen_source / check is working on
    version,           \* gen_source's / check's locals
    upstream_version,
    pkgs,              \* packages of cur not yet processed
    curpkg,
    vars,              \* variants the lazy iterator of line 231 has not yielded
    pending,           \* the instance handed to the filter_map closure
    deps,
    services,
    fsys,              \* paths created under dest, and the dependency file
    dep_out,           \* stanzas written into the dependency file
    rules,             \* the call of gen_rules: its services and its output
    instLog,           \* instances instantiated and validated, in order
    genLog,            \* instances the closure of line 243 has generated, in order
    handles,           \* output handles built by create_lazy_builder
    pkgDone,           \* (source, package) pairs whose loop body has finished
    calls              \* calls of gen_source and check

vars_main == <<split_source, write_deps, check_only, dep_file, loaded, queue>>
vars_src  == <<cur, version, upstream_version, pkgs, curpkg, vars, pending, deps, services>>
vars_out  == <<fsys, dep_out, rules, handles>>
vars_log  == <<instLog, genLog, pkgDone, calls>>
vars_all  == <<args, world, pc, panic, vars_main, vars_src, vars_out, vars_log>>

None == "None"
Dot == "."
Hyphen == "-"
Placeholder == "@"

Range(s) == {s[i] : i \in DOMAIN s}

Max(S) == CHOOSE m \in S : \A x \in S : x <= m

RECURSIVE SeqsUpTo(_, _)
SeqsUpTo(S, n) ==
    IF n = 0 THEN {<<>>}
    ELSE LET shorter == SeqsUpTo(S, n - 1)
         IN shorter \cup {Append(s, x) : s \in shorter, x \in S}

RECURSIVE Flatten(_)
Flatten(ss) == IF ss = <<>> THEN <<>> ELSE Head(ss) \o Flatten(Tail(ss))

(***************************************************************************)
(* Bounds and the inputs drawn from them.                                  *)
(***************************************************************************)
MaxArgs == 4
MaxVerLen == 4
MaxPackages == 2

ArgTokens == {"--split-source", "--write-deps", "--check", "deps.mk"}
VerTokens == {"1", Dot, Hyphen}
VariantChoices == {<<>>, <<"x">>, <<"x", "y">>}


(***************************************************************************)
(* The package specification files of the source directory.  "ghost" is a  *)
(* package a source names whose file does not exist.                       *)
(***************************************************************************)
PackageIds == {"p", "pd", "t", "td", "s", "ghost"}
IncludeIds == {"i1", "i2"}

PackageDefs ==
    [id \in PackageIds \cup IncludeIds |->
        CASE id = "p"  -> [name |-> <<"p">>, service |-> FALSE,
                           unit |-> <<>>, refuse_manual_start |-> FALSE,
                           refuse_manual_stop |-> FALSE, includes |-> {"i1"}]
          [] id = "pd" -> [name |-> <<"p", Dot, "1">>, service |-> TRUE,
                           unit |-> <<"u", Dot, "1">>, refuse_manual_start |-> TRUE,
                           refuse_manual_stop |-> TRUE, includes |-> {}]
          [] id = "t"  -> [name |-> <<"t", Hyphen, Placeholder>>, service |-> TRUE,
                           unit |-> <<"t", "d", Placeholder>>, refuse_manual_start |-> FALSE,
                           refuse_manual_stop |-> FALSE, includes |-> {"i2"}]
          [] id = "td" -> [name |-> <<"t", Dot, Placeholder>>, service |-> TRUE,
                           unit |-> <<"t", Placeholder>>, refuse_manual_start |-> TRUE,
                           refuse_manual_stop |-> FALSE, includes |-> {}]
          [] id = "s"  -> [name |-> <<"s">>, service |-> TRUE,
                           unit |-> <<"s">>, refuse_manual_start |-> FALSE,
                           refuse_manual_stop |-> TRUE, includes |-> {}]
          [] id = "i1" -> [name |-> <<"i1">>, service |-> FALSE,
                           unit |-> <<>>, refuse_manual_start |-> FALSE,
                           refuse_manual_stop |-> FALSE, includes |-> {"i2"}]
          [] OTHER     -> [name |-> <<id>>, service |-> FALSE,
                           unit |-> <<>>, refuse_manual_start |-> FALSE,
                           refuse_manual_stop |-> FALSE, includes |-> {}]]

FileExists(id) == id # "ghost"

\* The fields of Source that only gen_rules reads, per source name.
SourceStatic(name) ==
    IF name = "s1"
    THEN [with_components |-> <<"w1", "w2">>, buildsystem |-> "cmake",
          autoconf_params |-> <<>>, skip_debug_symbols |-> FALSE,
          skip_strip |-> TRUE]
    ELSE [with_components |-> <<>>, buildsystem |-> None,
          autoconf_params |-> <<"--a", "--b">>, skip_debug_symbols |-> TRUE,
          skip_strip |-> FALSE]

NoInvalid == [pkg |-> None, variant |-> None]

\* The second source of a repository document.
Cfg2 ==
    [variants |-> <<"x", "y">>, packages |-> <<"td", "s">>, changelog |-> TRUE,
     version |-> <<"2", Hyphen, "1">>, invalid |-> NoInvalid]

SourceCfg(w, name) == IF name = "s1" THEN w.cfg ELSE Cfg2

PackageSeqs ==
    {ps \in SeqsUpTo(PackageIds, MaxPackages) :
        \A i, j \in DOMAIN ps : i # j => ps[i] # ps[j]}

\* At most one instance of the source fails validation: a package of the
\* source instantiated for one of the source's variants, or for none.
InvalidChoices(ps, vs) ==
    {NoInvalid} \cup
    {[pkg |-> p, variant |-> v] : p \in Range(ps), v \in {None} \cup Range(vs)}

\* The changelog of the source and what the version oracle reads in it; an
\* absent changelog has no version.
Changelogs(Versions) ==
    {[changelog |-> TRUE, version |-> ver] : ver \in Versions}
    \cup {[changelog |-> FALSE, version |-> <<>>]}

Cfgs(Versions) ==
    UNION {
        {[variants |-> vs, packages |-> ps, changelog |-> cl.changelog,
          version |-> cl.version, invalid |-> inv] :
            cl \in Changelogs(Versions), inv \in InvalidChoices(ps, vs)} :
        vs \in VariantChoices, ps \in PackageSeqs}

Documents ==
    {[kind |-> "repo", maintainer |-> TRUE, sources |-> <<"s1", "s2">>],
     [kind |-> "single", maintainer |-> TRUE, sources |-> <<"s1">>],
     [kind |-> "single", maintainer |-> FALSE, sources |-> <<"s1">>]}

Worlds(Docs, Versions) ==
    {[doc |-> d, cfg |-> c] : d \in Docs, c \in Cfgs(Versions)}

(***************************************************************************)
(* The library operations the drivers call (crate debcrafter: types,       *)
(* im_repr), as the specification describes them.                          *)
(***************************************************************************)
is_templated(name) == Placeholder \in Range(name)

\* VPackageName expansion: the placeholder becomes the variant; without a
\* variant the name is left as configured.
expand(name, variant) ==
    IF variant = None THEN name
    ELSE [i \in DOMAIN name |-> IF name[i] = Placeholder THEN variant ELSE name[i]]

instantiate(src, pkg, variant) ==
    [src |-> src, pkg |-> pkg, variant |-> variant,
     name |-> expand(PackageDefs[pkg].name, variant),
     service |-> PackageDefs[pkg].service,
     unit |-> expand(PackageDefs[pkg].unit, variant),
     refuse_manual_start |-> PackageDefs[pkg].refuse_manual_start,
     refuse_manual_stop |-> PackageDefs[pkg].refuse_manual_stop]

validate(cfg, instance) ==
    ~(cfg.invalid.pkg = instance.pkg /\ cfg.invalid.variant = instance.variant)

sps_path(id) == <<id, Dot, "sps">>

RECURSIVE load_includes(_, _)
load_includes(todo, resolved) ==
    IF todo = {} THEN resolved
    ELSE LET n == CHOOSE x \in todo : TRUE
         IN IF n \in resolved THEN load_includes(todo \ {n}, resolved)
            ELSE load_includes((todo \ {n}) \cup PackageDefs[n].includes,
                               resolved \cup {n})

(***************************************************************************)
(* Pure helpers of debcrafter.rs.                                          *)
(***************************************************************************)
FILE_GENERATORS ==
    <<"config", "install", "dirs", "links", "manpages", "preinst", "postinst",
      "prerm", "postrm", "templates", "triggers">>

\* str::rfind: the last position holding ch, 0 when there is none.
rfind(s, ch) ==
    LET at == {i \in DOMAIN s : s[i] = ch}
    IN IF at = {} THEN 0 ELSE Max(at)

\* A slip: the split is made at the first hyphen (str::find for str::rfind).
get_upstream_version_first(v) ==
    LET at == {i \in DOMAIN v : v[i] = Hyphen}
    IN IF at = {} THEN v ELSE SubSeq(v, 1, (CHOOSE m \in at : \A x \in at : m <= x) - 1)

get_upstream_version(v) ==
    LET pos == rfind(v, Hyphen)
    IN IF pos = 0 THEN v ELSE SubSeq(v, 1, pos - 1)

\* Path::file_stem of a file name: the part before the last ".", the whole
\* name when there is no "." or when the only one leads the name.
file_stem(file) ==
    LET pos == rfind(file, Dot)
    IN IF file = <<Dot, Dot>> \/ pos <= 1 THEN file ELSE SubSeq(file, 1, pos - 1)

\* Path::set_extension on the last component of a path.
set_extension(path, extension) ==
    IF path.file = <<>> THEN path
    ELSE [path EXCEPT !.file =
            IF extension = <<>> THEN file_stem(path.file)
            ELSE file_stem(path.file) \o <<Dot>> \o extension]

join(dir, file) == [dir EXCEPT !.file = file]

DestDir(name, upstream) ==
    [root |-> "dest", dir |-> <<name, Hyphen>> \o upstream, sub |-> "", file |-> <<>>]

DebDir(name, upstream) == [DestDir(name, upstream) EXCEPT !.sub = "debian"]

DepFilePath(p) == [root |-> "cwd", dir |-> <<>>, sub |-> "", file |-> <<p>>]

create_lazy_builder(dest_dir, name, extension, append) ==
    [path |-> set_extension(join(dest_dir, name), extension), append |-> append]

\* fs::copy fails with NotFound when the source is absent; copy_changelog
\* lets that pass and creates nothing.
copy_changelog(deb_dir, exists) ==
    IF exists THEN {join(deb_dir, <<"changelog">>)} ELSE {}

\* dpkg-parsechangelog -l <path> -S Version: the version, or a failure status
\* when it cannot read the changelog.
changelog_parse_version(cfg) ==
    IF cfg.changelog THEN [ok |-> TRUE, version |-> cfg.version]
    ELSE [ok |-> FALSE, version |-> <<>>]

\* A slip: the stop refusal emits one of its two suppressions only.
ServiceLineUncoupled(service) ==
    <<"dh_installsystemd", "--name=">> \o service.unit_name
    \o (IF service.refuse_manual_start THEN <<"--no-start">> ELSE <<>>)
    \o (IF service.refuse_manual_stop THEN <<"--no-stop-on-upgrade">> ELSE <<>>)

ServiceLine(service) ==
    <<"dh_installsystemd", "--name=">> \o service.unit_name
    \o (IF service.refuse_manual_start THEN <<"--no-start">> ELSE <<>>)
    \o (IF service.refuse_manual_stop
        THEN <<"--no-stop-on-upgrade", "--no-restart-after-upgrade">> ELSE <<>>)

SystemdBlock(systemd_services) ==
    IF Len(systemd_services) > 0
    THEN <<<<>>, <<"override_dh_installsystemd:">>>>
         \o [i \in DOMAIN systemd_services |-> ServiceLine(systemd_services[i])]
    ELSE <<>>

gen_rules(source, systemd_services) ==
    <<<<"#!/usr/bin/make", "-f">>, <<>>, <<"%:">>,
      <<"dh", "$@">>
      \o Flatten([i \in DOMAIN source.with_components |->
                    <<"--with", source.with_components[i]>>])
      \o (IF source.buildsystem # None
          THEN <<"--buildsystem", source.buildsystem>> ELSE <<>>)>>
    \o SystemdBlock(systemd_services)
    \o (IF source.autoconf_params # <<>>
        THEN <<<<>>, <<"override_dh_auto_configure:">>,
               <<"dh_auto_configure", "--">> \o source.autoconf_params>>
        ELSE <<>>)
    \o (IF source.skip_debug_symbols THEN <<<<>>, <<"override_dh_dwz:">>>> ELSE <<>>)
    \o (IF source.skip_strip THEN <<<<>>, <<"override_dh_strip:">>>> ELSE <<>>)

ServiceRuleOf(instance) ==
    [unit_name |-> instance.unit,
     refuse_manual_start |-> instance.refuse_manual_start,
     refuse_manual_stop |-> instance.refuse_manual_stop]

\* The kinds whose generator writes something for the instance (the
\* generators are external; a handle that is never written creates no file).
WrittenKinds(instance) ==
    IF instance.service THEN {"install", "postinst", "prerm"} ELSE {"install"}

\* The handles the closure of lines 243-263 builds for one instance.
InstanceHandles(deb_dir, instance) ==
    {[name |-> instance.name, extension |-> <<FILE_GENERATORS[i]>>,
      handle |-> create_lazy_builder(deb_dir, instance.name,
                                     <<FILE_GENERATORS[i]>>, FALSE)] :
        i \in DOMAIN FILE_GENERATORS}
    \cup (IF instance.service
          THEN {[name |-> instance.name,
                 extension |-> instance.unit \o <<Dot, "service">>,
                 handle |-> create_lazy_builder(deb_dir, instance.name,
                                instance.unit \o <<Dot, "service">>, FALSE)]}
          ELSE {})
    \cup {[name |-> <<"control">>, extension |-> <<>>,
           handle |-> create_lazy_builder(deb_dir, <<"control">>, <<>>, TRUE)]}

InstanceFiles(deb_dir, instance) ==
    {h.handle.path : h \in
        {g \in InstanceHandles(deb_dir, instance) :
            \/ g.name = <<"control">>
            \/ g.extension \in {<<k>> : k \in WrittenKinds(instance)}
            \/ g.extension = instance.unit \o <<Dot, "service">>}}

(***************************************************************************)
(* main's argument loop, lines 325-338.                                    *)
(***************************************************************************)
ArgsInit ==
    [split_source |-> FALSE, write_deps |-> None, check_only |-> FALSE,
     panic |-> None]

RECURSIVE ParseLoop(_, _, _)
ParseLoop(a, i, st) ==
    IF i > Len(a) THEN st
    ELSE LET arg == a[i]
             s1 == IF arg = "--split-source"
                   THEN [st EXCEPT !.split_source = TRUE] ELSE st
         IN IF arg = "--write-deps"
            THEN IF i + 1 > Len(a)
                 THEN [s1 EXCEPT !.panic = "missing argument for --write-deps"]
                 ELSE ParseLoop(a, i + 2, [s1 EXCEPT !.write_deps = a[i + 1]])
            ELSE ParseLoop(a, i + 1,
                           IF arg = "--check"
                           THEN [s1 EXCEPT !.check_only = TRUE] ELSE s1)

\* A slip: the exclusion test of line 340 left out.
ConflictIgnored(wd, co) == FALSE

\* Line 340.
Conflict(wd, co) == wd # None /\ co

\* A slip: main calls gen_source whatever --check says.
DispatchIgnoresCheck(co) == "gen_source"

\* Lines 348 and 359.
Dispatch(co) == IF co THEN "check" ELSE "gen_source"

\* A slip: the test of the package's name left out of line 224 / 300.
InstantiateOnceNoNameTest(variants, name) == variants = <<>>

\* A slip: the negation of is_templated left out.
InstantiateOnceNotNegated(variants, name) == variants = <<>> \/ is_templated(name)

\* Lines 224 and 300.
InstantiateOnce(variants, name) == variants = <<>> \/ ~is_templated(name)

\* Line 217 and the accumulator handed to load_includes at line 219.
PackageDeps(p) ==
    {sps_path(p)} \cup {sps_path(i) : i \in load_includes(PackageDefs[p].includes, {})}

\* main, line 319: the top-level specification file.
spec_file == <<"repo", Dot, "toml">>

\* Lines 268-272.
Stanza(name, ds) == [target |-> <<"dest", "/debcrafter-", name, ".stamp">>, deps |-> ds]

(***************************************************************************)
(* The state machine.                                                      *)
(***************************************************************************)
NoRules == [called |-> FALSE, src |-> None, services |-> <<>>, lines |-> <<>>]

InitWith(ArgSet, WorldSet) ==
    /\ args \in ArgSet
    /\ world \in WorldSet
    /\ pc = "start"
    /\ panic = None
    /\ split_source = FALSE
    /\ write_deps = None
    /\ check_only = FALSE
    /\ dep_file = None
    /\ loaded = FALSE
    /\ queue = <<>>
    /\ cur = None
    /\ version = <<>>
    /\ upstream_version = <<>>
    /\ pkgs = <<>>
    /\ curpkg = None
    /\ vars = <<>>
    /\ pending = <<>>
    /\ deps = {}
    /\ services = <<>>
    /\ fsys = {}
    /\ dep_out = <<>>
    /\ rules = NoRules
    /\ instLog = <<>>
    /\ genLog = <<>>
    /\ handles = {}
    /\ pkgDone = {}
    /\ calls = [gen_source |-> 0, check |-> 0]

\* main, lines 317-342.
ParseArgs ==
    /\ pc = "start"
    /\ LET st == ParseLoop(args, 1, ArgsInit)
           msg == IF st.panic # None THEN st.panic
                  ELSE IF Conflict(st.write_deps, st.check_only)
                       THEN "Specifying --check and --write-deps at the same time doesn't make sense"
                       ELSE None
       IN /\ split_source' = st.split_source
          /\ write_deps' = st.write_deps
          /\ check_only' = st.check_only
          /\ panic' = msg
          /\ pc' = IF msg = None THEN "parsed" ELSE "aborted"
    /\ UNCHANGED <<args, world, dep_file, loaded, queue, vars_src, vars_out, vars_log>>

\* main, line 344.
OpenDepFile ==
    /\ pc = "parsed"
    /\ dep_file' = write_deps
    /\ fsys' = IF write_deps # None THEN fsys \cup {DepFilePath(write_deps)} ELSE fsys
    /\ pc' = "opened"
    /\ UNCHANGED <<args, world, panic, split_source, write_deps, check_only, loaded,
                   queue, vars_src, dep_out, rules, handles, vars_log>>

\* main, lines 347 and 356: load_toml as SingleSource or as Repository.
LoadSpec ==
    /\ pc = "opened"
    /\ loaded' = TRUE
    /\ LET wanted == IF split_source THEN "single" ELSE "repo"
       IN IF world.doc.kind = wanted
          THEN /\ queue' = world.doc.sources
               /\ pc' = "main_loop"
               /\ panic' = panic
          ELSE /\ queue' = queue
               /\ pc' = "aborted"
               /\ panic' = IF split_source THEN "Failed to load source"
                           ELSE "Failed to load repository"
    /\ UNCHANGED <<args, world, split_source, write_deps, check_only, dep_file,
                   vars_src, vars_out, vars_log>>

\* main, lines 348-353 and 358-363: one call of check or of gen_source.
MainDispatch ==
    /\ pc = "main_loop"
    /\ queue # <<>>
    /\ LET callee == Dispatch(check_only)
           nomaint == callee = "gen_source" /\ split_source /\ ~world.doc.maintainer
       IN IF nomaint
          THEN /\ pc' = "aborted"
               /\ panic' = "missing maintainer"
               /\ UNCHANGED <<queue, cur, calls>>
          ELSE /\ cur' = Head(queue)
               /\ queue' = Tail(queue)
               /\ calls' = [calls EXCEPT ![callee] = @ + 1]
               /\ pc' = IF callee = "check" THEN "check_begin" ELSE "gen_begin"
               /\ panic' = panic
    /\ UNCHANGED <<args, world, split_source, write_deps, check_only, dep_file, loaded,
                   version, upstream_version, pkgs, curpkg, vars, pending, deps,
                   services, vars_out, instLog, genLog, pkgDone>>

\* main, line 365: every source has been processed.
MainExit ==
    /\ pc = "main_loop"
    /\ queue = <<>>
    /\ pc' = "done"
    /\ UNCHANGED <<args, world, panic, vars_main, vars_src, vars_out, vars_log>>

\* gen_source, lines 193-209.
GenBegin ==
    /\ pc = "gen_begin"
    /\ LET cfg == SourceCfg(world, cur)
           r == changelog_parse_version(cfg)
           upstream == get_upstream_version(r.version)
           deb_dir == DebDir(cur, upstream)
       IN IF ~r.ok
          THEN /\ pc' = "aborted"
               /\ panic' = "dpkg-parsechangelog failed with status"
               /\ UNCHANGED <<version, upstream_version, pkgs, deps, services, fsys>>
          ELSE /\ version' = r.version
               /\ upstream_version' = upstream
               /\ fsys' = fsys \cup {DestDir(cur, upstream), deb_dir}
                               \cup copy_changelog(deb_dir, cfg.changelog)
                               \cup {join(deb_dir, <<"control">>),
                                     join(deb_dir, <<"compat">>)}
               /\ deps' = {}
               /\ services' = <<>>
               /\ pkgs' = cfg.packages
               /\ pc' = "gen_pkg"
               /\ panic' = panic
    /\ UNCHANGED <<args, world, vars_main, cur, curpkg, vars, pending, dep_out, rules,
                   handles, vars_log>>

\* gen_source, lines 215-239: load one package and its includes, then either
\* instantiate and validate it at once or set up the iterator over the variants.
GenPackage ==
    /\ pc = "gen_pkg"
    /\ pkgs # <<>>
    /\ LET cfg == SourceCfg(world, cur)
           p == Head(pkgs)
           instance == instantiate(cur, p, None)
           once == InstantiateOnce(cfg.variants, PackageDefs[p].name)
       IN IF ~FileExists(p)
          THEN /\ pc' = "aborted"
               /\ panic' = "failed to read"
               /\ UNCHANGED <<pkgs, curpkg, vars, pending, deps, instLog>>
          ELSE /\ curpkg' = p
               /\ pkgs' = Tail(pkgs)
               /\ deps' = IF dep_file # None THEN deps \cup PackageDeps(p) ELSE deps
               /\ IF once /\ ~validate(cfg, instance)
                  THEN /\ pc' = "aborted"
                       /\ panic' = "validation"
                       /\ UNCHANGED <<vars, pending, instLog>>
                  ELSE /\ vars' = IF once THEN <<>> ELSE cfg.variants
                       /\ pending' = IF once THEN <<instance>> ELSE <<>>
                       /\ instLog' = IF once THEN Append(instLog, instance) ELSE instLog
                       /\ pc' = IF once THEN "gen_inst" ELSE "gen_iter"
                       /\ panic' = panic
    /\ UNCHANGED <<args, world, vars_main, cur, version, upstream_version, services,
                   vars_out, genLog, pkgDone, calls>>

\* gen_source, lines 231-238 as driven by line 241: the iterator yields the
\* next variant's instance, validated, or ends.
GenNextInstance ==
    /\ pc = "gen_iter"
    /\ LET cfg == SourceCfg(world, cur)
       IN IF vars = <<>>
          THEN /\ pkgDone' = pkgDone \cup {<<cur, curpkg>>}
               /\ pc' = "gen_pkg"
               /\ UNCHANGED <<panic, vars, pending, instLog>>
          ELSE LET instance == instantiate(cur, curpkg, Head(vars))
               IN IF validate(cfg, instance)
                  THEN /\ pending' = <<instance>>
                       /\ vars' = Tail(vars)
                       /\ instLog' = Append(instLog, instance)
                       /\ pc' = "gen_inst"
                       /\ UNCHANGED <<panic, pkgDone>>
                  ELSE /\ pc' = "aborted"
                       /\ panic' = "validation"
                       /\ UNCHANGED <<vars, pending, instLog, pkgDone>>
    /\ UNCHANGED <<args, world, vars_main, cur, version, upstream_version, pkgs, curpkg,
                   deps, services, vars_out, genLog, calls>>

\* gen_source, lines 243-263: the closure run on one instance.
GenInstance ==
    /\ pc = "gen_inst"
    /\ LET instance == pending[1]
           deb_dir == DebDir(cur, upstream_version)
       IN /\ handles' = handles \cup InstanceHandles(deb_dir, instance)
          /\ fsys' = fsys \cup InstanceFiles(deb_dir, instance)
          /\ services' = IF instance.service
                         THEN Append(services, ServiceRuleOf(instance))
                         ELSE services
          /\ genLog' = Append(genLog, instance)
    /\ pending' = <<>>
    /\ pc' = "gen_iter"
    /\ UNCHANGED <<args, world, panic, vars_main, cur, version, upstream_version, pkgs,
                   curpkg, vars, deps, dep_out, rules, instLog, pkgDone, calls>>

\* gen_source, lines 266-277: the dependency stanza and debian/rules.
GenFinish ==
    /\ pc = "gen_pkg"
    /\ pkgs = <<>>
    /\ dep_out' = IF dep_file # None THEN Append(dep_out, Stanza(cur, deps)) ELSE dep_out
    /\ rules' = [called |-> TRUE, src |-> cur, services |-> services,
                 lines |-> gen_rules(SourceStatic(cur), services)]
    /\ fsys' = fsys \cup {join(DebDir(cur, upstream_version), <<"rules">>)}
    /\ pc' = "main_loop"
    /\ UNCHANGED <<args, world, panic, vars_main, vars_src, handles, vars_log>>

\* check, lines 283-286.
CheckBegin ==
    /\ pc = "check_begin"
    /\ LET cfg == SourceCfg(world, cur)
           r == changelog_parse_version(cfg)
       IN IF ~r.ok
          THEN /\ pc' = "aborted"
               /\ panic' = "dpkg-parsechangelog failed with status"
               /\ UNCHANGED <<version, upstream_version, pkgs>>
          ELSE /\ version' = r.version
               /\ upstream_version' = get_upstream_version(r.version)
               /\ pkgs' = cfg.packages
               /\ pc' = "check_pkg"
               /\ panic' = panic
    /\ UNCHANGED <<args, world, vars_main, cur, curpkg, vars, pending, deps, services,
                   vars_out, vars_log>>

\* check, lines 292-305.
CheckPackage ==
    /\ pc = "check_pkg"
    /\ pkgs # <<>>
    /\ LET cfg == SourceCfg(world, cur)
           p == Head(pkgs)
           instance == instantiate(cur, p, None)
           once == InstantiateOnce(cfg.variants, PackageDefs[p].name)
       IN IF ~FileExists(p)
          THEN /\ pc' = "aborted"
               /\ panic' = "failed to read"
               /\ UNCHANGED <<pkgs, curpkg, vars, instLog, pkgDone>>
          ELSE /\ curpkg' = p
               /\ pkgs' = Tail(pkgs)
               /\ IF once /\ ~validate(cfg, instance)
                  THEN /\ pc' = "aborted"
                       /\ panic' = "validation"
                       /\ UNCHANGED <<vars, instLog, pkgDone>>
                  ELSE /\ vars' = IF once THEN <<>> ELSE cfg.variants
                       /\ instLog' = IF once THEN Append(instLog, instance) ELSE instLog
                       /\ pkgDone' = IF once THEN pkgDone \cup {<<cur, p>>} ELSE pkgDone
                       /\ pc' = IF once THEN "check_pkg" ELSE "check_iter"
                       /\ panic' = panic
    /\ UNCHANGED <<args, world, vars_main, cur, version, upstream_version, pending, deps,
                   services, vars_out, genLog, calls>>

\* check, lines 306-311: one round of the loop over the variants, or its end.
CheckNextInstance ==
    /\ pc = "check_iter"
    /\ LET cfg == SourceCfg(world, cur)
       IN IF vars = <<>>
          THEN /\ pkgDone' = pkgDone \cup {<<cur, curpkg>>}
               /\ pc' = "check_pkg"
               /\ UNCHANGED <<panic, vars, instLog>>
          ELSE LET instance == instantiate(cur, curpkg, Head(vars))
               IN IF validate(cfg, instance)
                  THEN /\ vars' = Tail(vars)
                       /\ instLog' = Append(instLog, instance)
                       /\ UNCHANGED <<pc, panic, pkgDone>>
                  ELSE /\ pc' = "aborted"
                       /\ panic' = "validation"
                       /\ UNCHANGED <<vars, instLog, pkgDone>>
    /\ UNCHANGED <<args, world, vars_main, cur, version, upstream_version, pkgs, curpkg,
                   pending, deps, services, vars_out, genLog, calls>>

\* check, lines 313-314: the loop over the packages has ended.
CheckFinish ==
    /\ pc = "check_pkg"
    /\ pkgs = <<>>
    /\ pc' = "main_loop"
    /\ UNCHANGED <<args, world, panic, vars_main, vars_src, vars_out, vars_log>>

Next ==
    \/ ParseArgs
    \/ OpenDepFile
    \/ LoadSpec
    \/ MainDispatch
    \/ MainExit
    \/ GenBegin
    \/ GenPackage
    \/ GenNextInstance
    \/ GenInstance
    \/ GenFinish
    \/ CheckBegin
    \/ CheckPackage
    \/ CheckNextInstance
    \/ CheckFinish

(***************************************************************************)
(* Specifications: the same program, with the inputs each group of         *)
(* properties ranges over.                                                 *)
(***************************************************************************)
MainArgs ==
    {<<>>, <<"--check">>, <<"--write-deps", "deps.mk">>, <<"--split-source">>,
     <<"--split-source", "--check">>,
     <<"--split-source", "--write-deps", "deps.mk">>}

MainVersions == {<<"1", Dot, "2", Hyphen, "4">>}

Init == InitWith(MainArgs, Worlds(Documents, MainVersions))

Spec == Init /\ [][Next]_vars_all

ValidCfg(ps, vs, ver) ==
    [variants |-> vs, packages |-> ps, changelog |-> TRUE, version |-> ver,
     invalid |-> NoInvalid]

\* Every command line up to MaxArgs arguments, over one repository.
InitArgs ==
    InitWith(SeqsUpTo(ArgTokens, MaxArgs),
             {[doc |-> d, cfg |-> ValidCfg(<<"td", "p">>, <<"x", "y">>, <<"1", Hyphen, "1">>)] :
                d \in Documents})

SpecArgs == InitArgs /\ [][Next]_vars_all

\* Every version up to MaxVerLen tokens, and the two of the specification.
VersionInputs ==
    SeqsUpTo(VerTokens, MaxVerLen)
    \cup {<<"1", Dot, "2", Dot, "3", Hyphen, "4">>, <<"1", Dot, "2", Dot, "3">>}

InitVersion ==
    InitWith(MainArgs,
             {[doc |-> d, cfg |-> ValidCfg(<<"t">>, <<"x">>, ver)] :
                d \in Documents, ver \in VersionInputs})

SpecVersion == InitVersion /\ [][Next]_vars_all

(***************************************************************************)
(* Properties.                                                             *)
(***************************************************************************)
InstancesOf(log, s, p) == SelectSeq(log, LAMBDA i : i.src = s /\ i.pkg = p)

Templated(p) == is_templated(PackageDefs[p].name)

GenMode == calls.gen_source > 0

\* C1: a package whose name is not templated yields exactly one instance,
\* instantiated with no variant, in gen_source (where that one instance is the
\* one generated) and in check, whatever the number of variants of its source.
C1_NonTemplatedOnce ==
    \A sp \in pkgDone :
        ~Templated(sp[2]) =>
            /\ Len(InstancesOf(instLog, sp[1], sp[2])) = 1
            /\ InstancesOf(instLog, sp[1], sp[2])[1].variant = None
            /\ GenMode => InstancesOf(genLog, sp[1], sp[2])
                            = InstancesOf(instLog, sp[1], sp[2])

C1_Witness ==
    /\ pc = "done"
    /\ \E sp \in pkgDone :
        /\ ~Templated(sp[2])
        /\ Len(SourceCfg(world, sp[1]).variants) >= 2

\* C2: a templated package in a source with k > 0 variants yields k
\* instances, the i-th instantiated with the i-th variant of the source and
\* named after it, with names pairwise distinct; gen_source generates them in
\* that order.
C2_TemplatedPerVariant ==
    \A sp \in pkgDone :
        LET vs == SourceCfg(world, sp[1]).variants
            is == InstancesOf(instLog, sp[1], sp[2])
        IN (Templated(sp[2]) /\ vs # <<>>) =>
            /\ Len(is) = Len(vs)
            /\ \A i \in DOMAIN is :
                /\ is[i].variant = vs[i]
                /\ is[i].variant \in Range(is[i].name)
            /\ \A i, j \in DOMAIN is : i # j => is[i].name # is[j].name
            /\ GenMode => InstancesOf(genLog, sp[1], sp[2]) = is

C2_Witness ==
    /\ GenMode
    /\ \E sp \in pkgDone :
        /\ Templated(sp[2])
        /\ Len(SourceCfg(world, sp[1]).variants) >= 2
        /\ Len(InstancesOf(genLog, sp[1], sp[2])) >= 2

\* The positions of a command line that hold a flag rather than the path
\* given to --write-deps.
RECURSIVE FlagPositions(_, _)
FlagPositions(a, i) ==
    IF i > Len(a) THEN {}
    ELSE {i} \cup FlagPositions(a, IF a[i] = "--write-deps" THEN i + 2 ELSE i + 1)

CarriesCheckAndWriteDeps(a) ==
    \E i, j \in FlagPositions(a, 1) :
        /\ a[i] = "--check"
        /\ a[j] = "--write-deps"
        /\ j < Len(a)

\* C3: with both --check and --write-deps <path> on the command line main
\* aborts before anything else happens: no dependency file, no specification
\* loaded, no call of gen_source or check.
C3_ExclusiveFlagsAbort ==
    CarriesCheckAndWriteDeps(args) =>
        /\ pc \in {"start", "aborted"}
        /\ fsys = {}
        /\ dep_file = None
        /\ ~loaded
        /\ calls.gen_source = 0
        /\ calls.check = 0

C3_Witness ==
    /\ CarriesCheckAndWriteDeps(args)
    /\ pc = "aborted"
    /\ args[1] = "--check"
    /\ \E i \in FlagPositions(args, 1) : args[i] = "--split-source"

\* C4: a run with --check creates no directory and no file and writes no
\* dependency stanza, at any point of the run, completed or aborted.
C4_CheckWritesNothing ==
    check_only => (fsys = {} /\ dep_out = <<>> /\ handles = {} /\ ~rules.called)

C4_Witness ==
    /\ check_only
    /\ pc = "done"
    /\ calls.check = 2
    /\ Len(instLog) >= 3

SuppressFlags == {"--no-start", "--no-stop-on-upgrade", "--no-restart-after-upgrade"}

UnitOf(line) == SelectSeq(SubSeq(line, 3, Len(line)), LAMBDA w : w \notin SuppressFlags)

ServiceInstances(s) == SelectSeq(genLog, LAMBDA i : i.src = s /\ i.service)

\* C5: debian/rules holds the override_dh_installsystemd block exactly when a
\* ServiceRule was collected; the block holds one dh_installsystemd line per
\* rule, in collection order (the order the service instances were generated
\* in); a line holds --no-start exactly when its rule refuses manual start,
\* and --no-stop-on-upgrade and --no-restart-after-upgrade, both, exactly when
\* its rule refuses manual stop, and nothing else after the unit name.
C5_SystemdBlock ==
    rules.called =>
        LET L == rules.lines
            S == rules.services
            H == {i \in DOMAIN L : L[i] = <<"override_dh_installsystemd:">>}
            D == {i \in DOMAIN L : L[i] # <<>> /\ L[i][1] = "dh_installsystemd"}
        IN /\ (H # {}) <=> (Len(S) > 0)
           /\ Cardinality(H) <= 1
           /\ Cardinality(D) = Len(S)
           /\ Len(S) = Len(ServiceInstances(rules.src))
           /\ \A h \in H :
                /\ D = (h + 1)..(h + Len(S))
                /\ \A k \in DOMAIN S :
                    LET line == L[h + k]
                        inst == ServiceInstances(rules.src)[k]
                    IN /\ S[k].unit_name = inst.unit
                       /\ S[k].refuse_manual_start = inst.refuse_manual_start
                       /\ S[k].refuse_manual_stop = inst.refuse_manual_stop
                       /\ line[2] = "--name="
                       /\ UnitOf(line) = S[k].unit_name
                       /\ ("--no-start" \in Range(line)) <=> S[k].refuse_manual_start
                       /\ ("--no-stop-on-upgrade" \in Range(line))
                            <=> S[k].refuse_manual_stop
                       /\ ("--no-restart-after-upgrade" \in Range(line))
                            <=> S[k].refuse_manual_stop
                       /\ Len(line) = 2 + Len(S[k].unit_name)
                            + (IF S[k].refuse_manual_start THEN 1 ELSE 0)
                            + (IF S[k].refuse_manual_stop THEN 2 ELSE 0)

C5_Witness ==
    /\ rules.called
    /\ \E i, j \in DOMAIN rules.services :
        /\ i < j
        /\ rules.services[i].refuse_manual_start
        /\ ~rules.services[i].refuse_manual_stop
        /\ ~rules.services[j].refuse_manual_start
        /\ rules.services[j].refuse_manual_stop

\* C6: the upstream version is the version up to its last hyphen, the hyphen
\* left out, and the whole version when it holds no hyphen; "1.2.3-4" gives
\* "1.2.3" and "1.2.3" gives "1.2.3".
C6_UpstreamVersion ==
    /\ Hyphen \in Range(version) =>
        \E k \in DOMAIN version :
            /\ version[k] = Hyphen
            /\ \A j \in DOMAIN version : j > k => version[j] # Hyphen
            /\ Len(upstream_version) = k - 1
            /\ \A j \in 1..(k - 1) : upstream_version[j] = version[j]
    /\ Hyphen \notin Range(version) => upstream_version = version
    /\ version = <<"1", Dot, "2", Dot, "3", Hyphen, "4">>
        => upstream_version = <<"1", Dot, "2", Dot, "3">>
    /\ version = <<"1", Dot, "2", Dot, "3">>
        => upstream_version = <<"1", Dot, "2", Dot, "3">>

C6_Witness ==
    /\ Cardinality({i \in DOMAIN version : version[i] = Hyphen}) >= 2
    /\ upstream_version # <<>>
    /\ version[Len(version)] # Hyphen
    /\ pc = "done"

\* C7: gen_source on a source whose changelog is absent does not abort: it
\* skips the copy and generates control and the rest.
C7_AbsentChangelogTolerated ==
    (GenMode /\ cur # None /\ pc # "gen_begin" /\ ~SourceCfg(world, cur).changelog) =>
        /\ pc # "aborted" \/ panic \in {"validation", "failed to read"}
        /\ join(DebDir(cur, upstream_version), <<"control">>) \in fsys
        /\ join(DebDir(cur, upstream_version), <<"changelog">>) \notin fsys

\* C8: the handle built for an instance and a kind (or its unit file) is for
\* <deb_dir>/<instance-name>.<kind>, the whole name kept, so that instances of
\* distinct names share no path.
C8_HandlePathKeepsName ==
    /\ \A h \in handles :
        h.extension # <<>> =>
            h.handle.path.file = h.name \o <<Dot>> \o h.extension
    /\ \A g, h \in handles :
        g.name # h.name => g.handle.path # h.handle.path

\* C9: a stanza lists every file consulted for its source: the top-level
\* specification file, the file of every package of the source and every
\* transitively included file.
C9_StanzaListsEveryFile ==
    \A n \in DOMAIN dep_out :
        LET ps == SourceCfg(world, dep_out[n].target[3]).packages
        IN /\ spec_file \in dep_out[n].deps
           /\ \A i \in DOMAIN ps :
                /\ sps_path(ps[i]) \in dep_out[n].deps
                /\ \A inc \in load_includes(PackageDefs[ps[i]].includes, {}) :
                        sps_path(inc) \in dep_out[n].deps

ExpectedVariants(s, p) ==
    IF InstantiateOnce(SourceCfg(world, s).variants, PackageDefs[p].name)
    THEN {None} ELSE Range(SourceCfg(world, s).variants)

\* C10: when gen_source generates anything for an instance of a package,
\* every instance of that package has been validated; so a run that a failed
\* validation aborts has written nothing for the package being validated.
C10_ValidateAllBeforeGenerate ==
    /\ \A n \in DOMAIN genLog :
        \A v \in ExpectedVariants(genLog[n].src, genLog[n].pkg) :
            \E m \in DOMAIN instLog :
                /\ instLog[m].src = genLog[n].src
                /\ instLog[m].pkg = genLog[n].pkg
                /\ instLog[m].variant = v
    /\ (panic = "validation" /\ GenMode) =>
            InstancesOf(genLog, cur, curpkg) = <<>>

====
